---- MODULE Spec2Model ----
(***************************************************************************)
(* State-machine model of the file-backed note store JsonNotesStorage      *)
(* (src/unnamed/part_001, lines 188-272) and of the file system calls it   *)
(* makes.  Every asynchronous method is split at its awaits: the           *)
(* synchronous prefix of a method is one action, and every file-system     *)
(* request (open/write/rename/readFile/mkdir) takes effect in an action of *)
(* its own, so that calls issued by different callers interleave exactly   *)
(* where the event loop lets them.                                         *)
(***************************************************************************)
EXTENDS Naturals, Integers, Sequences, FiniteSets, TLC

(* ------------------------------ bounds --------------------------------- *)

\* number of callers that may have a store call in flight at the same time
NumCallers == 2
\* number of ids uuidv4 hands out in one run
MaxNotes == 2
\* number of injected file-system faults (EACCES, ENOSPC, ...) in one run
MaxFaults == 1
\* number of times the process is killed and started again in one run
MaxCrashes == 1
\* largest reading of the wall clock
MaxClock == 1

(* --------------------------- program constants ------------------------- *)

\* NoteSchema: title: z.string().min(1).max(200)
MinTitleLen == 1
MaxTitleLen == 200

Callers == 1 .. NumCallers
Stores == {"s1", "s2"}
Ids == 1 .. MaxNotes
NoId == 0

VARIABLES
    notes,        \* notes[s]: the Map<string, Note> of store s, in insertion order
    initialized,  \* initialized[s]: the flag of store s
    storeOf,      \* storeOf[p]: the store instance caller p talks to
    dirExists,    \* the parent directory of dataPath exists
    dataFile,     \* the content of the file dataPath names, or AbsentFile
    tempFile,     \* the content of the file tempPath names, or AbsentFile
    pc,           \* pc[p]: where caller p's call stands
    op,           \* op[p]: the method caller p is in
    note,         \* note[p]: the note createNote built
    id,           \* id[p]: the argument of deleteNote
    notesArray,   \* notesArray[p]: the array saveNotes serializes
    fd,           \* fd[p]: the file the descriptor of p's writeFile is open on
    data,         \* data[p]: what readFile returned to loadNotes
    uuid,         \* the next value uuidv4 returns
    clock,        \* the wall clock
    existed,      \* existed[p]: what notes.delete(id) returned to deleteNote
    deleted,      \* ids removed by deleteNote since the process started
    overlapped,   \* two mutating calls were in flight together since the start
    failed,       \* a mutating call has thrown since the process started
    faults,       \* file-system faults injected so far
    crashes,      \* process kills so far
    orig,         \* what the previous process left: its list and how it ended
    err,          \* err[p]: the code of the error caller p's call rejected with
    args,         \* args[p]: the arguments of the tool call in slot p
    lastOk,       \* the persist that completed last in this process succeeded
    mainPc,       \* where main() of index.ts stands
    handlers,     \* the signals process.on has a handler for
    exitCode,     \* the exit code of the server process, or NoExit
    pendingSig,   \* signals delivered to the process whose handler has not run
    stderr,       \* what the server process has logged with console.error
    setupPc,      \* the step the setup script is about to run
    dirsLeft,     \* the directories its forEach has not come to yet
    existing,     \* the directories that exist where the script runs
    made,         \* the directories and files the script has created
    ran,          \* the steps the script has run, in the order it ran them
    failedAt,     \* the step of the script that threw, or NoStep
    completed,    \* the script has printed its completion message
    setupExit     \* the exit code of the script, or NoExit

vars == <<notes, initialized, storeOf, dirExists, dataFile, tempFile, pc, op, note, id,
          notesArray, fd, data, existed, uuid, clock, deleted,
          overlapped, failed, faults, crashes, orig, err, args, lastOk,
          mainPc, handlers, exitCode, pendingSig, stderr,
          setupPc, dirsLeft, existing, made, ran, failedAt, completed, setupExit>>

(* ------------------------------ notes ---------------------------------- *)

NoNote == [id |-> NoId, title |-> "", content |-> "", tags |-> <<>>,
           created |-> 0, updated |-> 0]

\* what callers pass to createNote(title, content, tags?)
Inputs ==
    { [title |-> "Test", content |-> "Content", hasTags |-> TRUE,
       tags |-> <<"work", "work">>],
      [title |-> "",     content |-> "Content", hasTags |-> FALSE, tags |-> <<>>] }

\* a faulty object literal that does not set updated from now
NewNoteStaleUpdated(u, in, now) ==
    [id |-> u, title |-> in.title, content |-> in.content,
     tags |-> IF in.hasTags THEN in.tags ELSE <<>>,
     created |-> now, updated |-> 0]

\* the object literal of createNote
NewNote(u, in, now) ==
    [id |-> u, title |-> in.title, content |-> in.content,
     tags |-> IF in.hasTags THEN in.tags ELSE <<>>,
     created |-> now, updated |-> now]

NoteIds(m) == { m[i].id : i \in 1 .. Len(m) }

MapHas(m, i) == i \in NoteIds(m)

\* a faulty set that keys the entries by title: a note replaces the one that
\* has its title
MapSetByTitle(m, n) ==
    IF \E k \in 1 .. Len(m) : m[k].title = n.title
    THEN [i \in 1 .. Len(m) |-> IF m[i].title = n.title THEN n ELSE m[i]]
    ELSE Append(m, n)

\* Map.prototype.set: replace in place, or append
MapSet(m, n) ==
    IF MapHas(m, n.id)
    THEN [i \in 1 .. Len(m) |-> IF m[i].id = n.id THEN n ELSE m[i]]
    ELSE Append(m, n)

MapDeleteKeep(n, i) == n.id # i

\* Map.prototype.delete
MapDelete(m, i) == SelectSeq(m, LAMBDA n : MapDeleteKeep(n, i))

\* Map.prototype.get(id) || null
MapGet(m, i) ==
    IF MapHas(m, i) THEN (CHOOSE n \in { m[k] : k \in 1 .. Len(m) } : n.id = i)
    ELSE NoNote

getNote(s, i) == MapGet(notes[s], i)

getAllNotes(s) == notes[s]

\* NoteSchema.parse accepts the entry
NoteSchema(n) ==
    /\ n.id # NoId
    /\ Len(n.title) >= MinTitleLen
    /\ Len(n.title) <= MaxTitleLen
    /\ n.created >= 0
    /\ n.updated >= 0

\* the for loop of loadNotes: the first entry NoteSchema.parse throws on ends it
RECURSIVE LoadEntries(_, _)
LoadEntries(m, entries) ==
    IF entries = <<>> THEN m
    ELSE IF ~NoteSchema(Head(entries)) THEN m
    ELSE LoadEntries(MapSet(m, Head(entries)), Tail(entries))

(* ---------------------------- file system ------------------------------ *)

EmptyFile == [kind |-> "empty", notes |-> <<>>]
PartialFile == [kind |-> "partial", notes |-> <<>>]
MixedFile == [kind |-> "mixed", notes |-> <<>>]
AbsentFile == [kind |-> "absent", notes |-> <<>>]

\* the local `data` of a call that has not read the file
NoData == [kind |-> "none", notes |-> <<>>]

\* JSON.stringify(notesArray, null, 2) written out in full
FullFile(arr) == [kind |-> "full", notes |-> arr]

RECURSIVE TagsLen(_)
TagsLen(t) == IF t = <<>> THEN 0 ELSE Len(Head(t)) + 1 + TagsLen(Tail(t))

\* the length of the JSON text of an array of notes, up to a constant factor
RECURSIVE JsonLen(_)
JsonLen(arr) ==
    IF arr = <<>> THEN 1
    ELSE 1 + Len(Head(arr).title) + Len(Head(arr).content)
           + TagsLen(Head(arr).tags) + JsonLen(Tail(arr))

\* the contents a file can have after a whole buffer is written at offset 0
\* over content c: what was there survives past the end of the new text
Overwrite(c, arr) ==
    CASE c.kind = "empty" -> { FullFile(arr) }
      [] c.kind = "full" ->
            IF c.notes = arr \/ JsonLen(arr) >= JsonLen(c.notes)
            THEN { FullFile(arr) } ELSE { MixedFile }
      [] OTHER -> { FullFile(arr), MixedFile }

\* a write that fails part way (ENOSPC) leaves a prefix of the text
WriteFailed(c) == IF c.kind = "empty" THEN PartialFile ELSE MixedFile

\* rename(tempPath, dataPath) moves the open descriptors with their files: one
\* open on the temporary file is now open on the data file, one open on the old
\* data file is open on a file no path names
AfterRename(f) ==
    CASE f = "tmp" -> "data"
      [] f = "data" -> "orphan"
      [] OTHER -> f

(* ------------------------------ calls ---------------------------------- *)

Mutating(p) == op[p] \in {"createNote", "deleteNote"}

InFlight == { p \in Callers : pc[p] # "idle" }

Writers == { p \in Callers : pc[p] # "idle" /\ Mutating(p) }

Quiescent == InFlight = {}

\* Callers are interchangeable: the calls in flight are kept in the lowest
\* slots, in the order in which they were issued.  A new call takes the first
\* free slot, and when the call in slot p ends the later ones move down.
Free(p) == pc[p] = "idle" /\ \A q \in Callers : pc[q] = "idle" => p <= q

Shift(f, p, none) ==
    [q \in Callers |->
        IF q < p THEN f[q] ELSE IF q + 1 \in Callers THEN f[q + 1] ELSE none]

\* no error / no arguments in a call frame
NoErr == "none"
NoArgs == [hasTag |-> FALSE, tag |-> "", hasLimit |-> FALSE, limit |-> 0]

\* the server process of index.ts has not exited / was ended by a signal it
\* has no handler for (a status above 128, never 0 or 1)
NoExit == -1
Killed == 128

Signals == {"SIGINT", "SIGTERM"}

\* no step of the setup script has thrown
NoStep == "none"

\* the directories of the setup script, in the order of its array
Directories ==
    <<"src", "src/storage", "src/tools", "src/types", "src/utils", "data", "tests">>

\* the setup script has not been started, in an empty directory
SetupIdle ==
    /\ setupPc = "node --version"
    /\ dirsLeft = Directories
    /\ existing = {}
    /\ made = {}
    /\ ran = <<>>
    /\ failedAt = NoStep
    /\ completed = FALSE
    /\ setupExit = NoExit

TypeOK ==
    /\ \A s \in Stores : initialized[s] \in BOOLEAN
    /\ dirExists \in BOOLEAN
    /\ dataFile.kind \in {"absent", "empty", "partial", "mixed", "full"}
    /\ tempFile.kind \in {"absent", "empty", "partial", "mixed", "full"}
    /\ \A p \in Callers :
          /\ pc[p] \in {"idle", "open", "write", "rename", "return", "throw",
                        "access", "readFile", "parse", "ok", "isError"}
          /\ op[p] \in {"none", "createNote", "deleteNote", "initialize",
                        "getNote", "getAllNotes", "hello_mcp"}
          /\ fd[p] \in {"none", "tmp", "data", "orphan"}
          /\ storeOf[p] \in Stores
    /\ uuid \in 1 .. (MaxNotes + 1)
    /\ clock \in 0 .. MaxClock
    /\ faults \in 0 .. MaxFaults
    /\ crashes \in 0 .. MaxCrashes
    /\ \A p \in Callers :
          err[p] \in {NoErr, "ENOENT", "EACCES", "ENOSPC"}
    /\ lastOk \in BOOLEAN
    /\ mainPc \in {"start", "transport", "sigint", "registered", "connecting",
                   "serving", "failed"}
    /\ handlers \subseteq Signals
    /\ pendingSig \subseteq Signals
    /\ exitCode \in {NoExit, Killed, 0, 1}
    /\ setupExit \in {NoExit, 0, 1}
    /\ completed \in BOOLEAN
    /\ existing \subseteq { Directories[k] : k \in 1 .. Len(Directories) }

NoOrig == [clean |-> FALSE, list |-> <<>>]

Init ==
    /\ notes = [s \in Stores |-> <<>>]
    /\ initialized = [s \in Stores |-> FALSE]
    /\ storeOf = [p \in Callers |-> "s1"]
    /\ dirExists = FALSE
    /\ dataFile = AbsentFile
    /\ tempFile = AbsentFile
    /\ pc = [p \in Callers |-> "idle"]
    /\ op = [p \in Callers |-> "none"]
    /\ note = [p \in Callers |-> NoNote]
    /\ id = [p \in Callers |-> NoId]
    /\ notesArray = [p \in Callers |-> <<>>]
    /\ fd = [p \in Callers |-> "none"]
    /\ data = [p \in Callers |-> NoData]
    /\ uuid = 1
    /\ clock = 0
    /\ existed = [p \in Callers |-> FALSE]
    /\ deleted = {}
    /\ overlapped = FALSE
    /\ failed = FALSE
    /\ faults = 0
    /\ crashes = 0
    /\ orig = NoOrig
    /\ err = [p \in Callers |-> NoErr]
    /\ args = [p \in Callers |-> NoArgs]
    /\ lastOk = FALSE
    /\ mainPc = "start"
    /\ handlers = {}
    /\ exitCode = NoExit
    /\ pendingSig = {}
    /\ stderr = <<>>
    /\ SetupIdle


storeVars == <<notes, initialized, storeOf>>
fsVars == <<dirExists, dataFile, tempFile>>
histVars == <<deleted, overlapped, failed, crashes, orig>>
toolVars == <<err, args>>
procVars == <<mainPc, handlers, exitCode, pendingSig, stderr>>
setupVars == <<setupPc, dirsLeft, existing, made, ran, failedAt, completed, setupExit>>

(* ------------------- createNote / deleteNote / saveNotes --------------- *)

\* faulty variant: the mapping is one object shared by every instance
CreateNoteShared(p, in) ==
    /\ Free(p)
    /\ uuid <= MaxNotes
    /\ \E now \in { clock, IF clock < MaxClock THEN clock + 1 ELSE clock } :
          LET s == storeOf[p]
              n == NewNote(uuid, in, now)
              m == MapSet(notes[s], n)
          IN  /\ clock' = now
              /\ notes' = [t \in Stores |-> m]
              /\ note' = [note EXCEPT ![p] = n]
              /\ notesArray' = [notesArray EXCEPT ![p] = m]
    /\ uuid' = uuid + 1
    /\ op' = [op EXCEPT ![p] = "createNote"]
    /\ pc' = [pc EXCEPT ![p] = "open"]
    /\ overlapped' = (overlapped \/ Writers # {})
    /\ UNCHANGED <<initialized, storeOf, fsVars, id, fd, data, existed, deleted,
                   failed, faults, crashes, orig>>
    /\ UNCHANGED <<toolVars, lastOk, procVars, setupVars>>

\* createNote up to its await: build the note, notes.set, and the synchronous
\* start of saveNotes (Array.from(this.notes.values()), then writeFile is issued)
CreateNote(p, in) ==
    /\ Free(p)
    /\ uuid <= MaxNotes
    /\ \E now \in { clock, IF clock < MaxClock THEN clock + 1 ELSE clock } :
          LET s == storeOf[p]
              n == NewNote(uuid, in, now)
              m == MapSet(notes[s], n)
          IN  /\ clock' = now
              /\ notes' = [notes EXCEPT ![s] = m]
              /\ note' = [note EXCEPT ![p] = n]
              /\ notesArray' = [notesArray EXCEPT ![p] = m]
    /\ uuid' = uuid + 1
    /\ op' = [op EXCEPT ![p] = "createNote"]
    /\ pc' = [pc EXCEPT ![p] = "open"]
    /\ overlapped' = (overlapped \/ Writers # {})
    /\ UNCHANGED <<initialized, storeOf, fsVars, id, fd, data, existed, deleted,
                   failed, faults, crashes, orig>>
    /\ UNCHANGED <<toolVars, lastOk, procVars, setupVars>>

\* a faulty deleteNote without the test of existed: it saves whatever
\* notes.delete(id) returned
DeleteNoteAlwaysSaves(p, i) ==
    LET s == storeOf[p]
        was == MapHas(notes[s], i)
        m == MapDelete(notes[s], i)
    IN  /\ Free(p)
        /\ notes' = [notes EXCEPT ![s] = m]
        /\ existed' = [existed EXCEPT ![p] = was]
        /\ id' = [id EXCEPT ![p] = i]
        /\ op' = [op EXCEPT ![p] = "deleteNote"]
        /\ notesArray' = [notesArray EXCEPT ![p] = m]
        /\ pc' = [pc EXCEPT ![p] = "open"]
        /\ deleted' = IF was THEN deleted \cup {i} ELSE deleted
        /\ overlapped' = (overlapped \/ Writers # {})
        /\ UNCHANGED <<initialized, storeOf, fsVars, note, fd, data, uuid, clock,
                       failed, faults, crashes, orig>>
        /\ UNCHANGED <<toolVars, lastOk, procVars, setupVars>>

\* deleteNote up to its await: existed = notes.delete(id) and, if it existed, the
\* synchronous start of saveNotes; otherwise no await is reached
DeleteNote(p, i) ==
    LET s == storeOf[p]
        was == MapHas(notes[s], i)
        m == MapDelete(notes[s], i)
    IN  /\ Free(p)
        /\ notes' = [notes EXCEPT ![s] = m]
        /\ existed' = [existed EXCEPT ![p] = was]
        /\ id' = [id EXCEPT ![p] = i]
        /\ op' = [op EXCEPT ![p] = "deleteNote"]
        /\ notesArray' = [notesArray EXCEPT ![p] = IF was THEN m ELSE <<>>]
        /\ pc' = [pc EXCEPT ![p] = IF was THEN "open" ELSE "return"]
        /\ deleted' = IF was THEN deleted \cup {i} ELSE deleted
        /\ overlapped' = (overlapped \/ (was /\ Writers # {}))
        /\ UNCHANGED <<initialized, storeOf, fsVars, note, fd, data, uuid, clock,
                       failed, faults, crashes, orig>>
        /\ UNCHANGED <<toolVars, lastOk, procVars, setupVars>>

\* writeFile(tempPath, ...) opens the path with flag 'w': create or truncate
WriteFileOpen(p) ==
    /\ pc[p] = "open"
    /\ dirExists
    /\ tempFile' = EmptyFile
    /\ fd' = [fd EXCEPT ![p] = "tmp"]
    /\ pc' = [pc EXCEPT ![p] = "write"]
    /\ UNCHANGED <<storeVars, dirExists, dataFile, op, note, id, notesArray, data,
                   existed, uuid, clock, histVars, faults>>
    /\ UNCHANGED <<toolVars, lastOk, procVars, setupVars>>

\* the open is refused: ENOENT while the directory is missing, or an injected fault
WriteFileOpenFails(p) ==
    /\ pc[p] = "open"
    /\ \/ ~dirExists /\ faults' = faults
       \/ dirExists /\ faults < MaxFaults /\ faults' = faults + 1
    /\ pc' = [pc EXCEPT ![p] = "throw"]
    /\ UNCHANGED <<storeVars, fsVars, op, note, id, notesArray, fd, data, existed,
                   uuid, clock, histVars>>
    /\ err' = [err EXCEPT ![p] = IF dirExists THEN "EACCES" ELSE "ENOENT"]
    /\ lastOk' = FALSE
    /\ UNCHANGED <<args, procVars, setupVars>>

\* writeFile writes the text through its descriptor, whichever path names that
\* file by now, and closes it
WriteFileWrite(p) ==
    /\ pc[p] = "write"
    /\ \/ /\ fd[p] = "tmp"
          /\ tempFile' \in Overwrite(tempFile, notesArray[p])
          /\ dataFile' = dataFile
       \/ /\ fd[p] = "data"
          /\ dataFile' \in Overwrite(dataFile, notesArray[p])
          /\ tempFile' = tempFile
       \/ /\ fd[p] = "orphan"
          /\ UNCHANGED <<dataFile, tempFile>>
    /\ fd' = [fd EXCEPT ![p] = "none"]
    /\ pc' = [pc EXCEPT ![p] = "rename"]
    /\ UNCHANGED <<storeVars, dirExists, op, note, id, notesArray, data, existed,
                   uuid, clock, histVars, faults>>
    /\ UNCHANGED <<toolVars, lastOk, procVars, setupVars>>

\* the write fails part way (injected fault); writeFile closes and rejects
WriteFileWriteFails(p) ==
    /\ pc[p] = "write"
    /\ faults < MaxFaults
    /\ faults' = faults + 1
    /\ \/ /\ fd[p] = "tmp"
          /\ tempFile' = WriteFailed(tempFile)
          /\ dataFile' = dataFile
       \/ /\ fd[p] = "data"
          /\ dataFile' = WriteFailed(dataFile)
          /\ tempFile' = tempFile
       \/ /\ fd[p] = "orphan"
          /\ UNCHANGED <<dataFile, tempFile>>
    /\ fd' = [fd EXCEPT ![p] = "none"]
    /\ pc' = [pc EXCEPT ![p] = "throw"]
    /\ UNCHANGED <<storeVars, dirExists, op, note, id, notesArray, data, existed,
                   uuid, clock, histVars>>
    /\ err' = [err EXCEPT ![p] = "ENOSPC"]
    /\ lastOk' = FALSE
    /\ UNCHANGED <<args, procVars, setupVars>>

\* faulty variant: the snapshot is copied over dataPath and tempPath stays
RenameCopies(p) ==
    /\ pc[p] = "rename"
    /\ tempFile # AbsentFile
    /\ dataFile' = tempFile
    /\ tempFile' = tempFile
    /\ fd' = fd
    /\ pc' = [pc EXCEPT ![p] = "return"]
    /\ UNCHANGED <<storeVars, dirExists, op, note, id, notesArray, data, existed,
                   uuid, clock, histVars, faults>>
    /\ lastOk' = TRUE
    /\ UNCHANGED <<toolVars, procVars, setupVars>>

\* rename(tempPath, dataPath): dataPath now names the temporary file
Rename(p) ==
    /\ pc[p] = "rename"
    /\ tempFile # AbsentFile
    /\ dataFile' = tempFile
    /\ tempFile' = AbsentFile
    /\ fd' = [q \in Callers |-> AfterRename(fd[q])]
    /\ pc' = [pc EXCEPT ![p] = "return"]
    /\ UNCHANGED <<storeVars, dirExists, op, note, id, notesArray, data, existed,
                   uuid, clock, histVars, faults>>
    /\ lastOk' = TRUE
    /\ UNCHANGED <<toolVars, procVars, setupVars>>

\* the rename is refused: ENOENT when tempPath is gone, or an injected fault
RenameFails(p) ==
    /\ pc[p] = "rename"
    /\ \/ tempFile = AbsentFile /\ faults' = faults
       \/ tempFile # AbsentFile /\ faults < MaxFaults /\ faults' = faults + 1
    /\ pc' = [pc EXCEPT ![p] = "throw"]
    /\ UNCHANGED <<storeVars, fsVars, op, note, id, notesArray, fd, data, existed,
                   uuid, clock, histVars>>
    /\ err' = [err EXCEPT ![p] = IF tempFile = AbsentFile THEN "ENOENT" ELSE "EACCES"]
    /\ lastOk' = FALSE
    /\ UNCHANGED <<args, procVars, setupVars>>

\* the call in slot p is over: its frame is dropped; a free slot stands for a
\* client of the first instance until Bind says otherwise
EndCall(p) ==
    /\ pc' = Shift(pc, p, "idle")
    /\ op' = Shift(op, p, "none")
    /\ notesArray' = Shift(notesArray, p, <<>>)
    /\ note' = Shift(note, p, NoNote)
    /\ id' = Shift(id, p, NoId)
    /\ existed' = Shift(existed, p, FALSE)
    /\ fd' = Shift(fd, p, "none")
    /\ data' = Shift(data, p, NoData)
    /\ err' = Shift(err, p, NoErr)
    /\ args' = Shift(args, p, NoArgs)
    /\ storeOf' = Shift(storeOf, p, "s1")

\* the call's promise resolves: createNote with its note, deleteNote with
\* existed, initialize with nothing
Return(p) ==
    /\ pc[p] = "return"
    /\ EndCall(p)
    /\ UNCHANGED <<notes, initialized, fsVars, uuid, clock, deleted, overlapped, failed,
                   faults, crashes, orig>>
    /\ UNCHANGED <<lastOk, procVars, setupVars>>

\* the call's promise rejects: the rejection of writeFile / rename / mkdir passes
\* through saveNotes and createNote / deleteNote / initialize to the caller; no
\* handler on the way touches this.notes
Throw(p) ==
    /\ pc[p] = "throw"
    /\ failed' = (failed \/ Mutating(p))
    /\ EndCall(p)
    /\ UNCHANGED <<notes, initialized, fsVars, uuid, clock, deleted, overlapped, faults,
                   crashes, orig>>
    /\ UNCHANGED <<lastOk, procVars, setupVars>>

(* ----------------------- initialize / loadNotes ------------------------ *)

\* a faulty initialize without the test of this.initialized
InitializeNoGuard(p) ==
    /\ Free(p)
    /\ op' = [op EXCEPT ![p] = "initialize"]
    /\ pc' = [pc EXCEPT ![p] = "access"]
    /\ UNCHANGED <<storeVars, fsVars, note, id, notesArray, fd, data, existed,
                   uuid, clock, histVars, faults>>
    /\ UNCHANGED <<toolVars, lastOk, procVars, setupVars>>

\* initialize up to its await: return at once if the flag is set, else issue
\* fs.access(dir)
Initialize(p) ==
    /\ Free(p)
    /\ op' = [op EXCEPT ![p] = "initialize"]
    /\ pc' = [pc EXCEPT ![p] =
                 IF initialized[storeOf[p]] THEN "return" ELSE "access"]
    /\ UNCHANGED <<storeVars, fsVars, note, id, notesArray, fd, data, existed,
                   uuid, clock, histVars, faults>>
    /\ UNCHANGED <<toolVars, lastOk, procVars, setupVars>>

\* fs.access(dir), and fs.mkdir(dir, {recursive: true}) when it threw
AccessOrMkdir(p) ==
    /\ pc[p] = "access"
    /\ dirExists' = TRUE
    /\ pc' = [pc EXCEPT ![p] = "readFile"]
    /\ UNCHANGED <<storeVars, dataFile, tempFile, op, note, id, notesArray, fd,
                   data, existed, uuid, clock, histVars, faults>>
    /\ UNCHANGED <<toolVars, lastOk, procVars, setupVars>>

\* mkdir is refused (injected fault): initialize rejects, the flag stays clear
MkdirFails(p) ==
    /\ pc[p] = "access"
    /\ ~dirExists
    /\ faults < MaxFaults
    /\ faults' = faults + 1
    /\ pc' = [pc EXCEPT ![p] = "throw"]
    /\ UNCHANGED <<storeVars, fsVars, op, note, id, notesArray, fd, data, existed,
                   uuid, clock, histVars>>
    /\ err' = [err EXCEPT ![p] = "EACCES"]
    /\ UNCHANGED <<args, lastOk, procVars, setupVars>>

\* fs.readFile(dataPath): the content, or ENOENT
ReadFile(p) ==
    /\ pc[p] = "readFile"
    /\ data' = [data EXCEPT ![p] = dataFile]
    /\ pc' = [pc EXCEPT ![p] = "parse"]
    /\ UNCHANGED <<storeVars, fsVars, op, note, id, notesArray, fd, existed,
                   uuid, clock, histVars, faults>>
    /\ UNCHANGED <<toolVars, lastOk, procVars, setupVars>>

\* JSON.parse succeeds and yields an array: only on a completely written text
Parses(c) == c.kind = "full"

\* a faulty loadNotes whose catch passes on every error but ENOENT
LoadNotesNoCatch(p) ==
    LET s == storeOf[p]
        caught == Parses(data[p]) \/ data[p].kind = "absent"
    IN  /\ pc[p] = "parse"
        /\ notes' = [notes EXCEPT ![s] =
                        IF Parses(data[p]) THEN LoadEntries(@, data[p].notes) ELSE @]
        /\ initialized' = [initialized EXCEPT ![s] = caught]
        /\ pc' = [pc EXCEPT ![p] = IF caught THEN "return" ELSE "throw"]
        /\ UNCHANGED <<storeOf, fsVars, op, note, id, notesArray, fd, data, existed,
                       uuid, clock, histVars, faults>>
        /\ UNCHANGED <<toolVars, lastOk, procVars, setupVars>>

\* the rest of loadNotes (JSON.parse, the validating loop, the catch) and the
\* end of initialize (this.initialized = true)
LoadNotes(p) ==
    LET s == storeOf[p]
    IN  /\ pc[p] = "parse"
        /\ notes' = [notes EXCEPT ![s] =
                        IF Parses(data[p]) THEN LoadEntries(@, data[p].notes) ELSE @]
        /\ initialized' = [initialized EXCEPT ![s] = TRUE]
        /\ pc' = [pc EXCEPT ![p] = "return"]
        /\ UNCHANGED <<storeOf, fsVars, op, note, id, notesArray, fd, data, existed,
                       uuid, clock, histVars, faults>>
        /\ UNCHANGED <<toolVars, lastOk, procVars, setupVars>>

(* ------------------------------ process -------------------------------- *)

\* the process is killed at any point and a new one is started on the same
\* directory: every object of the old process is gone, the files stay
Crash ==
    /\ crashes < MaxCrashes
    /\ crashes' = crashes + 1
    /\ LET clean == /\ Quiescent /\ initialized["s1"]
                    /\ ~overlapped /\ ~failed /\ deleted = {}
       IN  orig' = [clean |-> clean, list |-> IF clean THEN notes["s1"] ELSE <<>>]
    /\ notes' = [s \in Stores |-> <<>>]
    /\ initialized' = [s \in Stores |-> FALSE]
    /\ pc' = [p \in Callers |-> "idle"]
    /\ op' = [p \in Callers |-> "none"]
    /\ note' = [p \in Callers |-> NoNote]
    /\ id' = [p \in Callers |-> NoId]
    /\ notesArray' = [p \in Callers |-> <<>>]
    /\ fd' = [p \in Callers |-> "none"]
    /\ data' = [p \in Callers |-> NoData]
    /\ existed' = [p \in Callers |-> FALSE]
    /\ deleted' = {}
    /\ overlapped' = FALSE
    /\ failed' = FALSE
    /\ UNCHANGED <<storeOf, fsVars, uuid, clock, faults>>
    /\ err' = [p \in Callers |-> NoErr]
    /\ args' = [p \in Callers |-> NoArgs]
    /\ lastOk' = FALSE
    /\ UNCHANGED <<procVars, setupVars>>

\* the SIGINT / SIGTERM handler: it logs and the process exits.  The handler of
\* index.ts calls process.exit(0) at once; the one of startStdioServer first
\* calls server.shutdown(), which NotesServer does not define, so that nothing
\* is written on the way out either.  No call in flight is waited for, the
\* files stay as they are, and a new process is started on them later
Signal ==
    /\ crashes < MaxCrashes
    /\ crashes' = crashes + 1
    /\ LET clean == /\ Quiescent /\ initialized["s1"]
                    /\ ~overlapped /\ ~failed /\ deleted = {}
       IN  orig' = [clean |-> clean, list |-> IF clean THEN notes["s1"] ELSE <<>>]
    /\ notes' = [s \in Stores |-> <<>>]
    /\ initialized' = [s \in Stores |-> FALSE]
    /\ pc' = [p \in Callers |-> "idle"]
    /\ op' = [p \in Callers |-> "none"]
    /\ note' = [p \in Callers |-> NoNote]
    /\ id' = [p \in Callers |-> NoId]
    /\ notesArray' = [p \in Callers |-> <<>>]
    /\ fd' = [p \in Callers |-> "none"]
    /\ data' = [p \in Callers |-> NoData]
    /\ existed' = [p \in Callers |-> FALSE]
    /\ deleted' = {}
    /\ overlapped' = FALSE
    /\ failed' = FALSE
    /\ UNCHANGED <<storeOf, fsVars, uuid, clock, faults>>
    /\ err' = [p \in Callers |-> NoErr]
    /\ args' = [p \in Callers |-> NoArgs]
    /\ lastOk' = FALSE
    /\ UNCHANGED <<procVars, setupVars>>

Next ==
    \/ \E p \in Callers, in \in Inputs : CreateNote(p, in)
    \/ \E p \in Callers, i \in Ids : DeleteNote(p, i)
    \/ \E p \in Callers : WriteFileOpen(p)
    \/ \E p \in Callers : WriteFileOpenFails(p)
    \/ \E p \in Callers : WriteFileWrite(p)
    \/ \E p \in Callers : WriteFileWriteFails(p)
    \/ \E p \in Callers : Rename(p)
    \/ \E p \in Callers : RenameFails(p)
    \/ \E p \in Callers : Return(p)
    \/ \E p \in Callers : Throw(p)
    \/ \E p \in Callers : Initialize(p)
    \/ \E p \in Callers : AccessOrMkdir(p)
    \/ \E p \in Callers : MkdirFails(p)
    \/ \E p \in Callers : ReadFile(p)
    \/ \E p \in Callers : LoadNotes(p)
    \/ Signal
    \/ Crash

Spec == Init /\ [][Next]_vars

(* ------------------------- getNote / getAllNotes ----------------------- *)

\* a faulty getNote that rejects when the id is unknown
GetNoteThrowsOnUnknown(p, i) ==
    /\ Free(p)
    /\ op' = [op EXCEPT ![p] = "getNote"]
    /\ id' = [id EXCEPT ![p] = i]
    /\ note' = [note EXCEPT ![p] = getNote(storeOf[p], i)]
    /\ pc' = [pc EXCEPT ![p] =
                 IF MapHas(notes[storeOf[p]], i) THEN "return" ELSE "throw"]
    /\ UNCHANGED <<storeVars, fsVars, notesArray, fd, data, existed, uuid, clock,
                   histVars, faults>>
    /\ UNCHANGED <<toolVars, lastOk, procVars, setupVars>>

\* getNote: no await; the promise resolves with the Map's value or null
GetNote(p, i) ==
    /\ Free(p)
    /\ op' = [op EXCEPT ![p] = "getNote"]
    /\ id' = [id EXCEPT ![p] = i]
    /\ note' = [note EXCEPT ![p] = getNote(storeOf[p], i)]
    /\ pc' = [pc EXCEPT ![p] = "return"]
    /\ UNCHANGED <<storeVars, fsVars, notesArray, fd, data, existed, uuid, clock,
                   histVars, faults>>
    /\ UNCHANGED <<toolVars, lastOk, procVars, setupVars>>

\* getAllNotes: no await; the promise resolves with a new array of the Map's
\* values
GetAllNotes(p) ==
    /\ Free(p)
    /\ op' = [op EXCEPT ![p] = "getAllNotes"]
    /\ notesArray' = [notesArray EXCEPT ![p] = getAllNotes(storeOf[p])]
    /\ pc' = [pc EXCEPT ![p] = "return"]
    /\ UNCHANGED <<storeVars, fsVars, note, id, fd, data, existed, uuid, clock,
                   histVars, faults>>
    /\ UNCHANGED <<toolVars, lastOk, procVars, setupVars>>

\* what a caller may assign to a field of a note it holds; no createNote input
\* has this title
Edited == "Edited"

\* the note object the call in slot p resolves with: `return note` of createNote,
\* the value of notes.get(id), or the first element of the array of getAllNotes
Handed(p) ==
    IF op[p] = "getAllNotes"
    THEN (IF notesArray[p] = <<>> THEN NoNote ELSE Head(notesArray[p]))
    ELSE note[p]

\* the Map after a field of the object with id w.id was assigned: the Map holds
\* the object itself, so its value is the changed one
Assigned(m, w) == [k \in 1 .. Len(m) |-> IF m[k].id = w.id THEN w ELSE m[k]]

\* the caller's continuation assigns to a field of the note it was handed.  What
\* createNote, getNote and getAllNotes hand out is the object the Map holds (no
\* copy is made), so the assignment is an assignment to the Map's value.  The
\* text saveNotes passed to writeFile was serialized before and is not touched
CallerWrites(p) ==
    LET s == storeOf[p]
        w == [Handed(p) EXCEPT !.title = Edited]
    IN  /\ pc[p] = "return"
        /\ op[p] \in {"createNote", "getNote", "getAllNotes"}
        /\ Handed(p) # NoNote
        /\ Handed(p).title # Edited
        /\ notes' = [notes EXCEPT ![s] = Assigned(@, w)]
        /\ note' = [note EXCEPT ![p] = IF op[p] = "getAllNotes" THEN @ ELSE w]
        /\ notesArray' = [notesArray EXCEPT ![p] =
                             IF op[p] = "getAllNotes" THEN Assigned(@, w) ELSE @]
        /\ UNCHANGED <<initialized, storeOf, fsVars, pc, op, id, fd, data, existed,
                       uuid, clock, histVars, faults>>
        /\ UNCHANGED <<toolVars, lastOk, procVars, setupVars>>

\* an initialized store on an empty directory, before its first call: the state
\* the first initialize() leaves
InitReads ==
    /\ notes = [s \in Stores |-> <<>>]
    /\ initialized = [s \in Stores |-> s = "s1"]
    /\ storeOf = [p \in Callers |-> "s1"]
    /\ dirExists = TRUE
    /\ dataFile = AbsentFile
    /\ tempFile = AbsentFile
    /\ pc = [p \in Callers |-> "idle"]
    /\ op = [p \in Callers |-> "none"]
    /\ note = [p \in Callers |-> NoNote]
    /\ id = [p \in Callers |-> NoId]
    /\ notesArray = [p \in Callers |-> <<>>]
    /\ fd = [p \in Callers |-> "none"]
    /\ data = [p \in Callers |-> NoData]
    /\ uuid = 1
    /\ clock = 0
    /\ existed = [p \in Callers |-> FALSE]
    /\ deleted = {}
    /\ overlapped = FALSE
    /\ failed = FALSE
    /\ faults = 0
    /\ crashes = 0
    /\ orig = NoOrig
    /\ err = [p \in Callers |-> NoErr]
    /\ args = [p \in Callers |-> NoArgs]
    /\ lastOk = FALSE
    /\ mainPc = "start"
    /\ handlers = {}
    /\ exitCode = NoExit
    /\ pendingSig = {}
    /\ stderr = <<>>
    /\ SetupIdle

\* the calls of a client of the initialized store, reads included, while the
\* process lives
NextReads ==
    \/ \E p \in Callers, in \in Inputs : CreateNote(p, in)
    \/ \E p \in Callers, i \in Ids : DeleteNote(p, i)
    \/ \E p \in Callers, i \in Ids : GetNote(p, i)
    \/ \E p \in Callers : GetAllNotes(p)
    \/ \E p \in Callers : CallerWrites(p)
    \/ \E p \in Callers : Initialize(p)
    \/ \E p \in Callers : WriteFileOpen(p)
    \/ \E p \in Callers : WriteFileWrite(p)
    \/ \E p \in Callers : Rename(p)
    \/ \E p \in Callers : RenameFails(p)
    \/ \E p \in Callers : Return(p)
    \/ \E p \in Callers : Throw(p)

SpecReads == InitReads /\ [][NextReads]_vars

(* --------------------- two instances on one file ----------------------- *)

\* the client's next call goes to instance s: a second JsonNotesStorage was
\* constructed on the same dataPath
Bind(p, s) ==
    /\ Free(p)
    /\ storeOf[p] # s
    /\ storeOf' = [storeOf EXCEPT ![p] = s]
    /\ UNCHANGED <<notes, initialized, fsVars, pc, op, note, id, notesArray, fd,
                   data, uuid, clock, existed, histVars, faults, toolVars,
                   lastOk, procVars, setupVars>>

\* two instances constructed on one dataPath, both initialized while the
\* directory held no notes file yet
InitTwo ==
    /\ notes = [s \in Stores |-> <<>>]
    /\ initialized = [s \in Stores |-> TRUE]
    /\ storeOf = [p \in Callers |-> "s1"]
    /\ dirExists = TRUE
    /\ dataFile = AbsentFile
    /\ tempFile = AbsentFile
    /\ pc = [p \in Callers |-> "idle"]
    /\ op = [p \in Callers |-> "none"]
    /\ note = [p \in Callers |-> NoNote]
    /\ id = [p \in Callers |-> NoId]
    /\ notesArray = [p \in Callers |-> <<>>]
    /\ fd = [p \in Callers |-> "none"]
    /\ data = [p \in Callers |-> NoData]
    /\ uuid = 1
    /\ clock = 0
    /\ existed = [p \in Callers |-> FALSE]
    /\ deleted = {}
    /\ overlapped = FALSE
    /\ failed = FALSE
    /\ faults = 0
    /\ crashes = 0
    /\ orig = NoOrig
    /\ err = [p \in Callers |-> NoErr]
    /\ args = [p \in Callers |-> NoArgs]
    /\ lastOk = FALSE
    /\ mainPc = "start"
    /\ handlers = {}
    /\ exitCode = NoExit
    /\ pendingSig = {}
    /\ stderr = <<>>
    /\ SetupIdle

\* creates made through either instance
NextTwo ==
    \/ \E p \in Callers, s \in Stores : Bind(p, s)
    \/ \E p \in Callers, in \in Inputs : CreateNote(p, in)
    \/ \E p \in Callers : WriteFileOpen(p)
    \/ \E p \in Callers : WriteFileWrite(p)
    \/ \E p \in Callers : Rename(p)
    \/ \E p \in Callers : RenameFails(p)
    \/ \E p \in Callers : Return(p)
    \/ \E p \in Callers : Throw(p)

SpecTwo == InitTwo /\ [][NextTwo]_vars

(* ---------------------------- tool handlers ---------------------------- *)

\* inputSchema of list_notes: limit: z.number().min(1).max(100).default(20)
MinLimit == 1
MaxLimit == 100
DefaultLimit == 20

\* inputSchema of create_note: title: z.string().min(1).max(200)
CreateNoteInputOk(in) ==
    Len(in.title) >= MinTitleLen /\ Len(in.title) <= MaxTitleLen

\* inputSchema of list_notes; the default is filled in before the handler runs
ListNotesInputOk(a) ==
    a.hasLimit => (a.limit >= MinLimit /\ a.limit <= MaxLimit)

LimitOf(a) == IF a.hasLimit THEN a.limit ELSE DefaultLimit

\* the arguments clients pass to list_notes
ListArgs ==
    { [hasTag |-> FALSE, tag |-> "",     hasLimit |-> FALSE, limit |-> 0],
      [hasTag |-> TRUE,  tag |-> "work", hasLimit |-> FALSE, limit |-> 0],
      [hasTag |-> FALSE, tag |-> "",     hasLimit |-> TRUE,  limit |-> 2],
      [hasTag |-> TRUE,  tag |-> "work", hasLimit |-> TRUE,  limit |-> 2],
      [hasTag |-> TRUE,  tag |-> "",     hasLimit |-> TRUE,  limit |-> 2],
      [hasTag |-> FALSE, tag |-> "",     hasLimit |-> TRUE,  limit |-> MaxLimit] }

\* tags.includes(tag)
Includes(tags, t) == \E k \in 1 .. Len(tags) : tags[k] = t

\* notes.filter(n => n.tags.includes(tag))
Filter(ns, t) == SelectSeq(ns, LAMBDA n : Includes(n.tags, t))

\* notes.slice(0, limit)
Slice(ns, n) == SubSeq(ns, 1, IF n < Len(ns) THEN n ELSE Len(ns))

\* if (tag): undefined and the empty string are both falsy
Truthy(a) == a.hasTag /\ a.tag # ""

\* the object literal of notes.map in list_notes
Summary(n) == [id |-> n.id, title |-> n.title, tags |-> n.tags, created |-> n.created]

Summaries(ns) == [k \in 1 .. Len(ns) |-> Summary(ns[k])]

\* the body of the list_notes handler after getAllNotes has resolved with ns
list_notes(ns, a) ==
    Summaries(Slice(IF Truthy(a) THEN Filter(ns, a.tag) ELSE ns, LimitOf(a)))

\* the text handleStorageError returns for an error with this code (or, for a
\* SyntaxError, of this class)
handleStorageError(code) ==
    CASE code = "EACCES" -> "Permission denied accessing notes file"
      [] code = "ENOSPC" -> "No space left on device"
      [] code = "SyntaxError" -> "Corrupted notes database"
      [] OTHER -> "An unexpected storage error occurred"

\* the tool of the handler running in slot p
Tool(p) ==
    CASE op[p] = "createNote" -> "create_note"
      [] op[p] = "getAllNotes" -> "list_notes"
      [] op[p] = "hello_mcp" -> "hello_mcp"
      [] OTHER -> "none"

\* the notes an earlier run of the server left: k-th note of the stored list
Stored(k) ==
    [id |-> MaxNotes + k, title |-> "Test", content |-> "Content",
     tags |-> CASE k % 4 = 1 -> <<"work">>
                [] k % 4 = 2 -> <<"home", "work">>
                [] k % 4 = 3 -> <<>>
                [] OTHER -> <<"", "home">>,
     created |-> 0, updated |-> 0]

StoredList(n) == [k \in 1 .. n |-> Stored(k)]

StoredSizes == {0, 4, DefaultLimit + 1}

\* create_note up to the await of its handler: the call of storage.createNote
CreateNoteTool(p, in) ==
    /\ CreateNoteInputOk(in)
    /\ CreateNote(p, in)

\* list_notes up to the await of its handler: getAllNotes takes its copy of the
\* mapping's values
ListNotes(p, a) ==
    /\ Free(p)
    /\ ListNotesInputOk(a)
    /\ op' = [op EXCEPT ![p] = "getAllNotes"]
    /\ args' = [args EXCEPT ![p] = a]
    /\ notesArray' = [notesArray EXCEPT ![p] = getAllNotes(storeOf[p])]
    /\ pc' = [pc EXCEPT ![p] = "return"]
    /\ UNCHANGED <<storeVars, fsVars, note, id, fd, data, existed, uuid, clock,
                   histVars, faults, err, lastOk, procVars, setupVars>>

\* faulty variant: the catch block answers like the try block
RespondErrorAsSuccess(p) ==
    /\ pc[p] = "throw"
    /\ pc' = [pc EXCEPT ![p] = "ok"]
    /\ failed' = (failed \/ Mutating(p))
    /\ UNCHANGED <<storeVars, fsVars, op, note, id, notesArray, fd, data, existed,
                   uuid, clock, deleted, overlapped, crashes, orig, faults,
                   toolVars, lastOk, procVars, setupVars>>

\* the store call resolved: the rest of the try block builds the result
RespondOk(p) ==
    /\ pc[p] = "return"
    /\ pc' = [pc EXCEPT ![p] = "ok"]
    /\ notesArray' = [notesArray EXCEPT ![p] =
                         IF Tool(p) = "list_notes" THEN list_notes(@, args[p]) ELSE @]
    /\ UNCHANGED <<storeVars, fsVars, op, note, id, fd, data, existed, uuid, clock,
                   histVars, faults, toolVars, lastOk, procVars, setupVars>>

\* the store call rejected: the catch block builds the result
RespondError(p) ==
    /\ pc[p] = "throw"
    /\ pc' = [pc EXCEPT ![p] = "isError"]
    /\ failed' = (failed \/ Mutating(p))
    /\ UNCHANGED <<storeVars, fsVars, op, note, id, notesArray, fd, data, existed,
                   uuid, clock, deleted, overlapped, crashes, orig, faults,
                   toolVars, lastOk, procVars, setupVars>>

\* the text of the hello_mcp handler
Greeting == "Congratulations! Your MCP server is working correctly!"

\* what the handler in slot p returns to the transport
Response(p) ==
    IF pc[p] = "isError"
    THEN [isError |-> TRUE, text |-> handleStorageError(err[p])]
    ELSE [isError |-> FALSE,
          text |-> CASE Tool(p) = "create_note" -> <<note[p].title, note[p].id>>
                     [] Tool(p) = "list_notes" -> notesArray[p]
                     [] OTHER -> notesArray[p][1].text]

\* the result is handed to the transport
Deliver(p) ==
    /\ pc[p] \in {"ok", "isError"}
    /\ EndCall(p)
    /\ UNCHANGED <<notes, initialized, fsVars, uuid, clock, histVars, faults,
                   lastOk, procVars, setupVars>>

\* the server after NotesServer.initialize, on the notes an earlier run left
InitTools ==
    /\ \E n \in StoredSizes :
          /\ notes = [s \in Stores |-> IF s = "s1" THEN StoredList(n) ELSE <<>>]
          /\ dataFile = IF n = 0 THEN AbsentFile ELSE FullFile(StoredList(n))
    /\ initialized = [s \in Stores |-> s = "s1"]
    /\ storeOf = [p \in Callers |-> "s1"]
    /\ dirExists = TRUE
    /\ tempFile = AbsentFile
    /\ pc = [p \in Callers |-> "idle"]
    /\ op = [p \in Callers |-> "none"]
    /\ note = [p \in Callers |-> NoNote]
    /\ id = [p \in Callers |-> NoId]
    /\ notesArray = [p \in Callers |-> <<>>]
    /\ fd = [p \in Callers |-> "none"]
    /\ data = [p \in Callers |-> NoData]
    /\ uuid = 1
    /\ clock = 0
    /\ existed = [p \in Callers |-> FALSE]
    /\ deleted = {}
    /\ overlapped = FALSE
    /\ failed = FALSE
    /\ faults = 0
    /\ crashes = 0
    /\ orig = NoOrig
    /\ err = [p \in Callers |-> NoErr]
    /\ args = [p \in Callers |-> NoArgs]
    /\ lastOk = FALSE
    /\ mainPc = "start"
    /\ handlers = {}
    /\ exitCode = NoExit
    /\ pendingSig = {}
    /\ stderr = <<>>
    /\ SetupIdle

\* the tool calls of the clients of the server
NextTools ==
    \/ \E p \in Callers, in \in Inputs : CreateNoteTool(p, in)
    \/ \E p \in Callers, a \in ListArgs : ListNotes(p, a)
    \/ \E p \in Callers : WriteFileOpen(p)
    \/ \E p \in Callers : WriteFileOpenFails(p)
    \/ \E p \in Callers : WriteFileWrite(p)
    \/ \E p \in Callers : WriteFileWriteFails(p)
    \/ \E p \in Callers : Rename(p)
    \/ \E p \in Callers : RenameFails(p)
    \/ \E p \in Callers : RespondOk(p)
    \/ \E p \in Callers : RespondError(p)
    \/ \E p \in Callers : Deliver(p)

SpecTools == InitTools /\ [][NextTools]_vars

(* ------------------------- index.ts: main() ---------------------------- *)

Running == exitCode = NoExit

\* process.exit(code), or the end of the process by a signal: every pending
\* call is gone with the process
Exit(code) ==
    /\ exitCode' = code
    /\ pc' = [p \in Callers |-> "idle"]
    /\ op' = [p \in Callers |-> "none"]
    /\ args' = [p \in Callers |-> NoArgs]
    /\ notesArray' = [p \in Callers |-> <<>>]
    /\ UNCHANGED <<storeVars, fsVars, note, id, fd, data, uuid, clock, existed,
                   histVars, faults, err, lastOk, setupVars>>

\* what main() leaves alone while it runs
MainFrame ==
    UNCHANGED <<storeVars, fsVars, pc, op, note, id, notesArray, fd, data, uuid,
                clock, existed, histVars, faults, toolVars, lastOk, exitCode,
                pendingSig, setupVars>>

\* new McpServer, registerTool("hello_mcp"), new StdioServerTransport
CreateServer ==
    /\ Running /\ mainPc = "start"
    /\ mainPc' = "transport"
    /\ UNCHANGED <<handlers, stderr>>
    /\ MainFrame

\* process.on('SIGINT', ...)
RegisterSigint ==
    /\ Running /\ mainPc = "transport"
    /\ mainPc' = "sigint"
    /\ handlers' = handlers \cup {"SIGINT"}
    /\ UNCHANGED stderr
    /\ MainFrame

\* process.on('SIGTERM', ...)
RegisterSigterm ==
    /\ Running /\ mainPc = "sigint"
    /\ mainPc' = "registered"
    /\ handlers' = handlers \cup {"SIGTERM"}
    /\ UNCHANGED stderr
    /\ MainFrame

\* server.connect(transport) up to its await
Connect ==
    /\ Running /\ mainPc = "registered"
    /\ mainPc' = "connecting"
    /\ UNCHANGED <<handlers, stderr>>
    /\ MainFrame

\* connect resolved: main logs its two lines and returns; the server serves
ConnectDone ==
    /\ Running /\ mainPc = "connecting"
    /\ mainPc' = "serving"
    /\ stderr' = stderr \o <<"started", "ready">>
    /\ UNCHANGED handlers
    /\ MainFrame

\* faulty variant: main().catch exits with 0
MainCatchExitsZero ==
    /\ Running /\ mainPc \in {"start", "connecting"}
    /\ mainPc' = "failed"
    /\ stderr' = Append(stderr, "failed")
    /\ Exit(0)
    /\ UNCHANGED <<handlers, pendingSig>>

\* a step of main threw or connect rejected: main().catch logs and exits with 1
MainCatch ==
    /\ Running /\ mainPc \in {"start", "connecting"}
    /\ mainPc' = "failed"
    /\ stderr' = Append(stderr, "failed")
    /\ Exit(1)
    /\ UNCHANGED <<handlers, pendingSig>>

\* the operating system delivers sig: with a handler registered it waits for
\* the event loop, without one it ends the process
SignalArrives(sig) ==
    /\ Running
    /\ sig \notin pendingSig
    /\ IF sig \in handlers
       THEN /\ pendingSig' = pendingSig \cup {sig}
            /\ UNCHANGED <<storeVars, fsVars, pc, op, note, id, notesArray, fd,
                           data, uuid, clock, existed, histVars, faults, toolVars,
                           lastOk, exitCode, setupVars>>
       ELSE /\ Exit(Killed)
            /\ UNCHANGED pendingSig
    /\ UNCHANGED <<mainPc, handlers, stderr>>

\* faulty variant: the handler reports a failure
SignalHandlerFails(sig) ==
    /\ Running
    /\ sig \in pendingSig
    /\ mainPc \in {"connecting", "serving"}
    /\ stderr' = Append(stderr, sig)
    /\ Exit(1)
    /\ UNCHANGED <<mainPc, handlers, pendingSig>>

\* the event loop runs the handler of a delivered signal, once main() is at its
\* await or has returned: it logs and calls process.exit(0)
SignalHandler(sig) ==
    /\ Running
    /\ sig \in pendingSig
    /\ mainPc \in {"connecting", "serving"}
    /\ stderr' = Append(stderr, sig)
    /\ Exit(0)
    /\ UNCHANGED <<mainPc, handlers, pendingSig>>

\* arguments a client may send with a hello_mcp call: the tool declares no
\* inputSchema, any will do
HelloArgs == ListArgs

\* a content item of type "text"
TextItem(t) == [type |-> "text", text |-> t]

\* faulty variant: the greeting names the tag the client sent
HelloMcpEchoes(p, a) ==
    /\ Running /\ mainPc = "serving"
    /\ Free(p)
    /\ op' = [op EXCEPT ![p] = "hello_mcp"]
    /\ args' = [args EXCEPT ![p] = a]
    /\ notesArray' = [notesArray EXCEPT ![p] =
                         <<TextItem(IF a.hasTag THEN a.tag ELSE Greeting)>>]
    /\ pc' = [pc EXCEPT ![p] = "ok"]
    /\ UNCHANGED <<storeVars, fsVars, note, id, fd, data, uuid, clock, existed,
                   histVars, faults, err, lastOk, procVars, setupVars>>

\* a hello_mcp request: the handler has no await and returns its result, whose
\* content array the frame keeps in notesArray
HelloMcp(p, a) ==
    /\ Running /\ mainPc = "serving"
    /\ Free(p)
    /\ op' = [op EXCEPT ![p] = "hello_mcp"]
    /\ args' = [args EXCEPT ![p] = a]
    /\ notesArray' = [notesArray EXCEPT ![p] = <<TextItem(Greeting)>>]
    /\ pc' = [pc EXCEPT ![p] = "ok"]
    /\ UNCHANGED <<storeVars, fsVars, note, id, fd, data, uuid, clock, existed,
                   histVars, faults, err, lastOk, procVars, setupVars>>

MainStep ==
    CreateServer \/ RegisterSigint \/ RegisterSigterm \/ Connect

NextMain ==
    \/ CreateServer
    \/ RegisterSigint
    \/ RegisterSigterm
    \/ Connect
    \/ ConnectDone
    \/ MainCatch
    \/ \E sig \in Signals : SignalArrives(sig)
    \/ \E sig \in Signals : SignalHandler(sig)
    \/ \E p \in Callers, a \in HelloArgs : HelloMcp(p, a)
    \/ \E p \in Callers : Deliver(p)

\* main() runs on until its await, a connect that is not rejected resolves, and
\* the event loop does run the handler of a delivered signal
SpecMain ==
    /\ Init /\ [][NextMain]_vars
    /\ WF_vars(MainStep)
    /\ WF_vars(ConnectDone)
    /\ WF_vars(\E sig \in Signals : SignalHandler(sig))

(* --------------------------- setup script ------------------------------ *)

SetupRunning == setupExit = NoExit

Prerequisites == {"node --version", "npm --version"}

Commands == {"npm install", "npm run build"}

Files ==
    {"package.json", "tsconfig.json", "src/index.ts", "README.md",
     "jest.config.js", "tests/setup.test.ts"}

\* the statement of main() that follows the one that runs step st
SetupAfter(st) ==
    CASE st = "node --version" -> "npm --version"
      [] st = "npm --version" -> "directories"
      [] st = "package.json" -> "tsconfig.json"
      [] st = "tsconfig.json" -> "src/index.ts"
      [] st = "src/index.ts" -> "README.md"
      [] st = "README.md" -> "jest.config.js"
      [] st = "jest.config.js" -> "tests/setup.test.ts"
      [] st = "tests/setup.test.ts" -> "npm install"
      [] st = "npm install" -> "npm run build"
      [] st = "npm run build" -> "complete"

\* what the script leaves alone
SetupFrame ==
    UNCHANGED <<storeVars, fsVars, pc, op, note, id, notesArray, fd, data, uuid,
                clock, existed, histVars, faults, toolVars, lastOk, procVars>>

\* executeCommand succeeds: execSync returns
ExecuteCommand ==
    /\ SetupRunning
    /\ setupPc \in Prerequisites \cup Commands
    /\ ran' = Append(ran, setupPc)
    /\ setupPc' = SetupAfter(setupPc)
    /\ UNCHANGED <<dirsLeft, existing, made, failedAt, completed, setupExit>>
    /\ SetupFrame

\* faulty variant: the catch around the prerequisites only logs
PrerequisiteFailsGoesOn ==
    /\ SetupRunning
    /\ setupPc \in Prerequisites
    /\ ran' = Append(ran, setupPc)
    /\ failedAt' = setupPc
    /\ setupPc' = "directories"
    /\ UNCHANGED <<dirsLeft, existing, made, completed, setupExit>>
    /\ SetupFrame

\* a prerequisite command throws: the inner catch logs and calls process.exit(1)
PrerequisiteFails ==
    /\ SetupRunning
    /\ setupPc \in Prerequisites
    /\ ran' = Append(ran, setupPc)
    /\ failedAt' = setupPc
    /\ setupExit' = 1
    /\ UNCHANGED <<setupPc, dirsLeft, existing, made, completed>>
    /\ SetupFrame

\* npm install or npm run build throws: the catch of main logs and exits with 1
ExecuteCommandFails ==
    /\ SetupRunning
    /\ setupPc \in Commands
    /\ ran' = Append(ran, setupPc)
    /\ failedAt' = setupPc
    /\ setupExit' = 1
    /\ UNCHANGED <<setupPc, dirsLeft, existing, made, completed>>
    /\ SetupFrame

\* createDirectory for the next element of the array: mkdirSync unless it exists
CreateDirectory ==
    /\ SetupRunning
    /\ setupPc = "directories"
    /\ LET d == Head(dirsLeft)
       IN  /\ ran' = Append(ran, d)
           /\ existing' = existing \cup {d}
           /\ made' = IF d \in existing THEN made ELSE made \cup {d}
    /\ dirsLeft' = Tail(dirsLeft)
    /\ setupPc' = IF Tail(dirsLeft) = <<>> THEN "package.json" ELSE "directories"
    /\ UNCHANGED <<failedAt, completed, setupExit>>
    /\ SetupFrame

\* mkdirSync throws: the catch of main logs and exits with 1
CreateDirectoryFails ==
    /\ SetupRunning
    /\ setupPc = "directories"
    /\ Head(dirsLeft) \notin existing
    /\ ran' = Append(ran, Head(dirsLeft))
    /\ failedAt' = Head(dirsLeft)
    /\ setupExit' = 1
    /\ UNCHANGED <<setupPc, dirsLeft, existing, made, completed>>
    /\ SetupFrame

\* createFile succeeds: writeFileSync creates or overwrites the file
CreateFile ==
    /\ SetupRunning
    /\ setupPc \in Files
    /\ ran' = Append(ran, setupPc)
    /\ made' = made \cup {setupPc}
    /\ setupPc' = SetupAfter(setupPc)
    /\ UNCHANGED <<dirsLeft, existing, failedAt, completed, setupExit>>
    /\ SetupFrame

\* writeFileSync throws: createFile rethrows, the catch of main exits with 1
CreateFileFails ==
    /\ SetupRunning
    /\ setupPc \in Files
    /\ ran' = Append(ran, setupPc)
    /\ failedAt' = setupPc
    /\ setupExit' = 1
    /\ UNCHANGED <<setupPc, dirsLeft, existing, made, completed>>
    /\ SetupFrame

\* the completion message is printed, main returns and the process ends
Complete ==
    /\ SetupRunning
    /\ setupPc = "complete"
    /\ completed' = TRUE
    /\ setupExit' = 0
    /\ UNCHANGED <<setupPc, dirsLeft, existing, made, ran, failedAt>>
    /\ SetupFrame

\* a directory can exist only inside an existing one
ParentOf(d) == IF d \in {"src", "data", "tests"} THEN d ELSE "src"

\* the script is started in a directory that may hold some of its directories
InitSetup ==
    /\ notes = [s \in Stores |-> <<>>]
    /\ initialized = [s \in Stores |-> FALSE]
    /\ storeOf = [p \in Callers |-> "s1"]
    /\ dirExists = FALSE
    /\ dataFile = AbsentFile
    /\ tempFile = AbsentFile
    /\ pc = [p \in Callers |-> "idle"]
    /\ op = [p \in Callers |-> "none"]
    /\ note = [p \in Callers |-> NoNote]
    /\ id = [p \in Callers |-> NoId]
    /\ notesArray = [p \in Callers |-> <<>>]
    /\ fd = [p \in Callers |-> "none"]
    /\ data = [p \in Callers |-> NoData]
    /\ uuid = 1
    /\ clock = 0
    /\ existed = [p \in Callers |-> FALSE]
    /\ deleted = {}
    /\ overlapped = FALSE
    /\ failed = FALSE
    /\ faults = 0
    /\ crashes = 0
    /\ orig = NoOrig
    /\ err = [p \in Callers |-> NoErr]
    /\ args = [p \in Callers |-> NoArgs]
    /\ lastOk = FALSE
    /\ mainPc = "start"
    /\ handlers = {}
    /\ exitCode = NoExit
    /\ pendingSig = {}
    /\ stderr = <<>>
    /\ setupPc = "node --version"
    /\ dirsLeft = Directories
    /\ existing \in { e \in SUBSET { Directories[k] : k \in 1 .. Len(Directories) } :
                        \A d \in e : ParentOf(d) \in e }
    /\ made = {}
    /\ ran = <<>>
    /\ failedAt = NoStep
    /\ completed = FALSE
    /\ setupExit = NoExit

NextSetup ==
    \/ ExecuteCommand
    \/ PrerequisiteFails
    \/ ExecuteCommandFails
    \/ CreateDirectory
    \/ CreateDirectoryFails
    \/ CreateFile
    \/ CreateFileFails
    \/ Complete

SpecSetup == InitSetup /\ [][NextSetup]_vars

(* ------------------------------ claims --------------------------------- *)

\* the notes a reader of dataPath gets out of the file, as loadNotes parses it
Persisted == IF Parses(dataFile) THEN dataFile.notes ELSE <<>>

\* caller p is inside the mutate-then-persist sequence of a mutating call
InPersist(p) == Mutating(p) /\ pc[p] \in {"open", "write", "rename"}

\* C1: the backing file is never a mixed, partial or truncated snapshot: in every
\* reachable state it is absent or holds one completely written snapshot.
C1_CrashAtomic == dataFile.kind \in {"absent", "full"}

\* C2: a createNote whose persist step failed leaves the mapping as it was before
\* the call: when the call rejects, its note is not in the mapping.
C2_CreateRollback ==
    \A p \in Callers :
        (pc[p] = "throw" /\ op[p] = "createNote")
            => ~MapHas(notes[storeOf[p]], note[p].id)

\* C3: with mutating calls run one at a time, whenever none is in flight the
\* mapping of an initialized store equals the snapshot in the backing file.
C3_MemoryMatchesDisk ==
    (Quiescent /\ ~overlapped /\ initialized["s1"]) => notes["s1"] = Persisted

\* C4: at most one mutating call is between its in-memory mutation and the
\* completion of its rename.
C4_WritersSerialized == Cardinality({ p \in Callers : InPersist(p) }) <= 1

\* C5: when calls have overlapped and every one of them has completed without an
\* error, the backing file equals the in-memory mapping.
C5_Linearized ==
    (Quiescent /\ overlapped /\ ~failed /\ initialized["s1"])
        => notes["s1"] = Persisted

\* createNote is about to hand its note to the caller, and no deleteNote has
\* removed that id: getNote(id) yields that very note
C6_AtReturn ==
    \A p \in Callers :
        (pc[p] = "return" /\ op[p] = "createNote" /\ note[p].id \notin deleted)
            => getNote(storeOf[p], note[p].id) = note[p]

\* a note in the mapping stays there, field by field, until deleteNote removes
\* its id or the process ends
C6_Kept ==
    \A s \in Stores, i \in Ids :
        (MapHas(notes[s], i) /\ i \notin deleted' /\ crashes' = crashes)
            => MapGet(notes'[s], i) = MapGet(notes[s], i)

\* C6: a successful createNote followed by getNote(id) with the returned id yields
\* a note equal to the returned one (id, title, content, tags, created, updated),
\* as long as no deleteNote of that id happened in between.
C6_RoundTrip == []C6_AtReturn /\ [][C6_Kept]_vars

C6_Witness ==
    \E p \in Callers :
        /\ pc[p] = "return" /\ op[p] = "createNote"
        /\ note[p].id \notin deleted
        /\ note[p].tags # <<>>
        /\ Len(notes[storeOf[p]]) = 2
        /\ getNote(storeOf[p], note[p].id) = note[p]

\* the process before this one was initialized and ended with no call in
\* flight, after createNote calls only, none of which failed or overlapped; this
\* one has done nothing but the initialize that is now finishing its load
C7_Reload(p) ==
    /\ pc[p] = "parse" /\ pc'[p] = "return"
    /\ crashes > 0 /\ orig.clean
    /\ InFlight = {p}
    /\ notes["s1"] = <<>> /\ deleted = {} /\ ~failed

\* C7: after N successful createNote calls, a fresh store initialized on the same
\* backing file holds exactly the notes the original listed, in the same order.
C7_SurvivesRestart ==
    [][\A p \in Callers : C7_Reload(p) => notes'["s1"] = orig.list]_vars

\* C9: deleteNote of an id in the mapping returns true, and then the id is
\* neither in the mapping nor in the snapshot the backing file holds.
C9_DeletePresent ==
    \A p \in Callers :
        (pc[p] = "return" /\ op[p] = "deleteNote" /\ existed[p])
            => /\ ~MapHas(notes[storeOf[p]], id[p])
               /\ id[p] \notin NoteIds(Persisted)

\* a deleteNote that found nothing to delete is at its return: it is never at an
\* open, a write or a rename, and never fails
C10_NoPersist ==
    \A p \in Callers :
        (op[p] = "deleteNote" /\ ~existed[p]) => pc[p] = "return"

\* the step that starts deleteNote leaves the id out of the mapping, so that a
\* second deleteNote of it meets the absent case; and on an id the mapping does
\* not hold (never created, or deleted before) it yields false and changes
\* neither the mapping nor a file
C10_Step ==
    \A p \in Callers :
        (pc[p] = "idle" /\ op'[p] = "deleteNote")
            => /\ ~MapHas(notes'[storeOf[p]], id'[p])
               /\ existed'[p] = MapHas(notes[storeOf[p]], id'[p])
               /\ ~MapHas(notes[storeOf[p]], id'[p])
                    => /\ ~existed'[p]
                       /\ pc'[p] = "return"
                       /\ notes' = notes
                       /\ dataFile' = dataFile
                       /\ tempFile' = tempFile

\* C10: deleteNote of an id not in the mapping returns false without an error,
\* leaves the mapping unchanged and writes neither the temporary file nor the
\* backing file; deleting the same id twice returns true, then false.
C10_DeleteAbsent == []C10_NoPersist /\ [][C10_Step]_vars

C10_Witness ==
    \E p \in Callers :
        /\ pc[p] = "return" /\ op[p] = "deleteNote" /\ ~existed[p]
        /\ id[p] \in deleted
        /\ notes[storeOf[p]] # <<>>
        /\ dataFile.kind = "full"

\* caller p's call moves on from one await to the next: no call ends and no
\* process ends in this step
Moves(p, from) == pc[p] = from /\ pc'[p] # from /\ InFlight' = InFlight

\* an initialize that rejects has not come to read the file: only mkdir fails it
C11_NoThrow ==
    \A p \in Callers :
        (op[p] = "initialize" /\ pc[p] = "throw") => data[p] = NoData

\* the step that ends loadNotes on a file that is absent or does not parse:
\* initialize completes, the store is initialized and no note was added
C11_Step ==
    \A p \in Callers :
        (Moves(p, "parse") /\ ~Parses(data[p]))
            => /\ pc'[p] = "return"
               /\ initialized'[storeOf[p]]
               /\ notes' = notes

\* C11: initialize against an absent backing file, or one whose content does not
\* parse, completes without error and leaves the store initialized with no note
\* loaded: a fresh store ends with zero notes.
C11_InitNeverFailsOnContent == []C11_NoThrow /\ [][C11_Step]_vars

C11_Witness ==
    \E p \in Callers :
        /\ pc[p] = "return" /\ op[p] = "initialize"
        /\ data[p].kind \in {"empty", "partial", "mixed"}
        /\ initialized[storeOf[p]]
        /\ notes[storeOf[p]] = <<>>

\* C12: when the backing file parses as a sequence of entries, loadNotes loads
\* every entry that passes NoteSchema, wherever it stands relative to the entries
\* that fail, and skips only those.
C12_PerEntryValidation ==
    [][\A p \in Callers :
          (Moves(p, "parse") /\ Parses(data[p]))
              => \A k \in 1 .. Len(data[p].notes) :
                    NoteSchema(data[p].notes[k])
                        => MapHas(notes'[storeOf[p]], data[p].notes[k].id)]_vars

\* C13: createNote and deleteNote called on a store that is not initialized fail
\* (with a lifecycle error) and change neither the mapping nor a file.
C13_LifecycleGuard ==
    [][\A p \in Callers :
          (/\ pc[p] = "idle"
           /\ op'[p] \in {"createNote", "deleteNote"}
           /\ ~initialized[storeOf[p]])
              => /\ pc'[p] = "throw"
                 /\ notes' = notes
                 /\ dataFile' = dataFile
                 /\ tempFile' = tempFile]_vars

\* C14: when SIGINT or SIGTERM ends the process, also while a mutation is between
\* its change of the mapping and its rename, the backing file equals the mapping
\* of the initialized store at the exit.
C14_FlushBeforeExit ==
    [][Signal => (initialized["s1"] => notes["s1"] = Persisted)]_vars

\* the step that starts initialize on an initialized store: the call returns at
\* once, reads nothing, and changes neither the mapping nor a file
C15_Step ==
    \A p \in Callers :
        (pc[p] = "idle" /\ op'[p] = "initialize" /\ initialized[storeOf[p]])
            => /\ pc'[p] = "return"
               /\ data'[p] = NoData
               /\ notes' = notes
               /\ initialized' = initialized
               /\ dataFile' = dataFile
               /\ tempFile' = tempFile

\* C15: initialize on a store that is already initialized, after any creates and
\* deletes, changes neither the mapping nor the backing file: it does not reload
\* from disk and drops no note.
C15_InitializeIdempotent == [][C15_Step]_vars

C15_Witness ==
    \E p \in Callers :
        /\ pc[p] = "return" /\ op[p] = "initialize" /\ data[p] = NoData
        /\ initialized[storeOf[p]]
        /\ deleted # {}
        /\ notes[storeOf[p]] # <<>>
        /\ notes[storeOf[p]] # Persisted

\* every note in a mapping has a title of at least MinTitleLen characters
C17_TitleNonEmpty ==
    \A s \in Stores : \A k \in 1 .. Len(notes[s]) :
        Len(notes[s][k].title) >= MinTitleLen

\* the step that starts createNote with a title NoteSchema does not accept: the
\* call fails and changes neither the mapping nor a file
C17_Step ==
    \A p \in Callers :
        (/\ pc[p] = "idle" /\ op'[p] = "createNote"
         /\ \/ Len(note'[p].title) < MinTitleLen
            \/ Len(note'[p].title) > MaxTitleLen)
            => /\ pc'[p] = "throw"
               /\ notes' = notes
               /\ dataFile' = dataFile
               /\ tempFile' = tempFile

\* C17: createNote with an empty or over-long title fails with a validation
\* error and leaves the mapping and the backing file unchanged; hence every note
\* in the mapping has a non-empty title in every reachable state.
C17_StoreValidates == []C17_TitleNonEmpty /\ [][C17_Step]_vars

\* a tags collection without an empty entry and without a duplicate
TagsNormal(t) ==
    /\ \A a \in 1 .. Len(t) : t[a] # ""
    /\ \A a, b \in 1 .. Len(t) : a # b => t[a] # t[b]

\* C18: in every reachable state every note in the mapping, created or loaded,
\* has tags with no duplicate and no empty entry.
C18_TagsNormalized ==
    \A s \in Stores : \A k \in 1 .. Len(notes[s]) : TagsNormal(notes[s][k].tags)

\* every note in the mapping has created <= updated, a note createNote returns
\* has created = updated, and a note that is both in the mapping and in the
\* backing file has the same created in both
C19_Inv ==
    /\ \A s \in Stores : \A k \in 1 .. Len(notes[s]) :
          notes[s][k].created <= notes[s][k].updated
    /\ \A p \in Callers :
          (pc[p] = "return" /\ op[p] = "createNote")
              => note[p].created = note[p].updated
    /\ \A i \in NoteIds(notes["s1"]) \cap NoteIds(Persisted) :
          MapGet(notes["s1"], i).created = MapGet(Persisted, i).created

\* created of a note that stays in the mapping does not change
C19_CreatedKept ==
    \A s \in Stores, i \in Ids :
        (MapHas(notes[s], i) /\ MapHas(notes'[s], i))
            => MapGet(notes'[s], i).created = MapGet(notes[s], i).created

\* C19: every note in the mapping satisfies created <= updated; a note returned
\* by createNote has created = updated; created of a note never changes after
\* creation, also across a save and a load.
C19_Timestamps == []C19_Inv /\ [][C19_CreatedKept]_vars

C19_Witness ==
    \E p \in Callers :
        /\ pc[p] = "return" /\ op[p] = "initialize"
        /\ crashes > 0
        /\ Parses(data[p])
        /\ notes[storeOf[p]] = data[p].notes
        /\ \E k \in 1 .. Len(notes[storeOf[p]]) : notes[storeOf[p]][k].created > 0

\* C16: a change a caller makes to a note it got from createNote, getNote or
\* getAllNotes is not visible in the mapping and is not written to the backing
\* file: no note of the mapping or of the file carries what the caller assigned.
C16_CallersGetCopies ==
    /\ \A k \in 1 .. Len(notes["s1"]) : notes["s1"][k].title # Edited
    /\ \A k \in 1 .. Len(Persisted) : Persisted[k].title # Edited

\* getNote and getAllNotes never reject and never hold a descriptor or file data
C20_NoError ==
    \A p \in Callers :
        op[p] \in {"getNote", "getAllNotes"}
            => pc[p] = "return" /\ fd[p] = "none" /\ data[p] = NoData

\* the step that makes a read changes neither the mapping nor a file, and getNote
\* of an id the mapping does not hold yields null
C20_Step ==
    \A p \in Callers :
        (pc[p] = "idle" /\ op'[p] \in {"getNote", "getAllNotes"})
            => /\ notes' = notes
               /\ dirExists' = dirExists
               /\ dataFile' = dataFile
               /\ tempFile' = tempFile
               /\ op'[p] = "getNote"
                    => IF MapHas(notes[storeOf[p]], id'[p])
                       THEN note'[p].id = id'[p]
                       ELSE note'[p] = NoNote
               /\ op'[p] = "getAllNotes" => notesArray'[p] = notes[storeOf[p]]

\* C20: getNote and getAllNotes never change the mapping, never read or write
\* the backing file or the temporary file, and getNote of an unknown id yields
\* absent rather than an error.
C20_ReadsPure == []C20_NoError /\ [][C20_Step]_vars

C20_Witness ==
    \E p, q \in Callers :
        /\ pc[p] = "return" /\ op[p] = "getNote"
        /\ id[p] \in deleted /\ note[p] = NoNote
        /\ op[q] = "createNote" /\ pc[q] = "rename"
        /\ notes[storeOf[p]] # Persisted

\* C23: a note being created is in the mapping, complete, from the first step of
\* its createNote on, and the backing file does not hold the snapshot of that
\* createNote before its rename has completed (with no delete so far the
\* snapshot of a createNote, which ends with its own note, is no other call's).
C23_VisibilityOrdering ==
    \A p \in Callers :
        (op[p] = "createNote" /\ pc[p] \in {"open", "write", "rename"})
            => /\ note[p].id \in deleted
                  \/ getNote(storeOf[p], note[p].id) = note[p]
               /\ deleted = {} => dataFile # FullFile(notesArray[p])

\* C24: the rename that ends a persist successfully makes the snapshot of its own
\* call the backing file, and a call that rejected did so with an error of the
\* file system.
C24_Surfaced ==
    \A p \in Callers :
        (Mutating(p) /\ pc[p] = "throw") => err[p] # NoErr

C24_Step ==
    \A p \in Callers :
        (Mutating(p) /\ Moves(p, "rename") /\ pc'[p] = "return")
            => dataFile' = FullFile(notesArray[p])

C24_PersistFailuresSurfaced == []C24_Surfaced /\ [][C24_Step]_vars

\* C25: a note whose createNote returned successfully and that was not deleted
\* afterwards is in the backing file whenever no mutating call is in flight: the
\* notes a cleanly ended process left, after a restart, and the note of a create
\* that has just returned.
C25_Durable ==
    /\ (crashes > 0 /\ orig.clean /\ Writers = {})
          => (NoteIds(orig.list) \ deleted) \subseteq NoteIds(Persisted)
    /\ \A p \in Callers :
          (op[p] = "createNote" /\ pc[p] = "return" /\ Writers = {p}
                /\ note[p].id \notin deleted)
              => note[p].id \in NoteIds(Persisted)

\* C26: while the file system has injected no fault, no createNote or deleteNote
\* rejects.
C26_NoSpuriousFailure ==
    faults = 0 => \A p \in Callers : Mutating(p) => pc[p] # "throw"

\* C28: once the persist that completed last has succeeded, the temporary file
\* exists only while a call that opened it has not yet renamed it; with no
\* mutating call in flight it does not exist.
C28_NoTempLeft ==
    (lastOk /\ tempFile # AbsentFile)
        => \E p \in Writers : pc[p] \in {"write", "rename"}

C28_Witness ==
    /\ Writers = {}
    /\ lastOk /\ failed /\ faults > 0
    /\ tempFile = AbsentFile
    /\ Persisted # <<>>

\* C27: with two instances on one dataPath, as soon as each of them holds a note
\* the backing file holds no note of one of them: a note created through that
\* instance is missing from it.
C27_TwoInstancesLose ==
    (\A s \in Stores : notes[s] # <<>>)
        => \E s \in Stores : NoteIds(notes[s]) \cap NoteIds(Persisted) = {}

C27_Witness ==
    /\ Quiescent
    /\ ~failed /\ ~overlapped /\ faults = 0
    /\ Parses(dataFile)
    /\ \A s \in Stores : notes[s] # <<>>
    /\ \E s \in Stores : \E i \in NoteIds(notes[s]) : i \notin NoteIds(Persisted)

\* what the specification says list_notes returns for the notes ns
C21_Matching(ns, a) == IF a.hasTag THEN Filter(ns, a.tag) ELSE ns

\* C21: list_notes with a limit n returns, in insertion order, the first n of the
\* notes of the mapping at the time of the call whose tags contain the tag given,
\* of all of them when no tag is given; no note is in the result twice.
C21_NoDup ==
    \A p \in Callers :
        (Tool(p) = "list_notes" /\ pc[p] = "ok")
            => \A i, j \in 1 .. Len(notesArray[p]) :
                  notesArray[p][i].id = notesArray[p][j].id => i = j

C21_Step ==
    \A p \in Callers :
        /\ (pc[p] = "idle" /\ op'[p] = "getAllNotes")
              => notesArray'[p] = notes[storeOf[p]]
        /\ (Tool(p) = "list_notes" /\ Moves(p, "return") /\ args[p].hasLimit)
              => notesArray'[p] =
                    Summaries(Slice(C21_Matching(notesArray[p], args[p]),
                                    args[p].limit))

C21_ListFiltering == []C21_NoDup /\ [][C21_Step]_vars

\* C22: list_notes without a limit returns every note that matches.
C22_Step ==
    \A p \in Callers :
        (Tool(p) = "list_notes" /\ Moves(p, "return") /\ ~args[p].hasLimit)
            => notesArray'[p] = Summaries(C21_Matching(notesArray[p], args[p]))

C22_UnboundedByDefault == [][C22_Step]_vars

\* C29: a handler whose store call rejected returns a result with isError and a
\* text, a handler whose store call resolved returns a result without isError,
\* and no handler ends in any other way.
C29_Texts ==
    { "Permission denied accessing notes file", "No space left on device",
      "Corrupted notes database", "An unexpected storage error occurred" }

C29_Inv ==
    \A p \in Callers :
        /\ pc[p] = "isError"
              => /\ err[p] # NoErr
                 /\ Response(p).isError
                 /\ Response(p).text \in C29_Texts
        /\ pc[p] = "ok" => (err[p] = NoErr /\ ~Response(p).isError)

C29_Step ==
    /\ \A p \in Callers :
          /\ Moves(p, "throw") => pc'[p] = "isError"
          /\ Moves(p, "return") => pc'[p] = "ok"
    /\ InFlight' # InFlight
          => \A st \in {"return", "throw"} :
                Cardinality({ p \in Callers : pc'[p] = st })
                    >= Cardinality({ p \in Callers : pc[p] = st })

C29_HandlersCatch == []C29_Inv /\ [][C29_Step]_vars

C29_Witness ==
    \E p, q \in Callers :
        /\ Tool(p) = "create_note" /\ pc[p] = "isError" /\ err[p] = "ENOENT"
        /\ Tool(q) = "list_notes" /\ pc[q] = "ok"
        /\ note[p].id \in { notesArray[q][k].id : k \in 1 .. Len(notesArray[q]) }

\* both handlers are registered before server.connect is called
C30_RegisteredFirst ==
    mainPc \in {"connecting", "serving"} => handlers = Signals

\* C30 as stated: the handlers are registered before the connect, and a process
\* that has ended after a signal was delivered to its handlers has ended with
\* exit code 0.
C30_SignalsExitZero ==
    /\ C30_RegisteredFirst
    /\ (handlers = Signals /\ pendingSig # {} /\ ~Running) => exitCode = 0

\* C30, amended: ... with exit code 0, or with exit code 1 when main() failed
\* before the handler ran; and a delivered signal does end the process.
C30_Inv ==
    /\ C30_RegisteredFirst
    /\ (handlers = Signals /\ pendingSig # {} /\ ~Running)
          => \/ exitCode = 0
             \/ exitCode = 1 /\ mainPc = "failed"

C30_SignalsExit ==
    /\ []C30_Inv
    /\ (handlers = Signals /\ pendingSig # {}) ~> ~Running

C30_Witness ==
    /\ exitCode = 0
    /\ mainPc = "connecting"
    /\ "SIGTERM" \in pendingSig

\* C31: a main() that failed has logged the failure, and nothing else, and the
\* process has ended with exit code 1; only a failed main() ends it with 1; the
\* two start messages are on stderr only when connect has completed.
C31_StartupFailure ==
    /\ mainPc = "failed" => (exitCode = 1 /\ stderr = <<"failed">>)
    /\ exitCode = 1 => mainPc = "failed"
    /\ (\E k \in 1 .. Len(stderr) : stderr[k] \in {"started", "ready"})
          => (mainPc = "serving" /\ Len(stderr) >= 2
              /\ stderr[1] = "started" /\ stderr[2] = "ready")

C31_Witness ==
    /\ mainPc = "failed"
    /\ handlers = Signals
    /\ pendingSig # {}
    /\ exitCode = 1

\* C32: every hello_mcp call returns the one text item with the greeting,
\* whatever its arguments and whatever came before, and the step that handles it
\* changes nothing of the server: not main(), the handlers, the log, the exit
\* code, nor any other call.
C32_Inv ==
    \A p \in Callers :
        Tool(p) = "hello_mcp"
            => /\ pc[p] = "ok"
               /\ notesArray[p] = <<TextItem(Greeting)>>
               /\ Response(p) = [isError |-> FALSE, text |-> Greeting]

C32_Step ==
    \A p \in Callers :
        (pc[p] = "idle" /\ op'[p] = "hello_mcp")
            => /\ UNCHANGED <<procVars, storeVars, fsVars>>
               /\ \A q \in Callers \ {p} :
                     /\ pc'[q] = pc[q] /\ op'[q] = op[q]
                     /\ notesArray'[q] = notesArray[q]

C32_HelloStateless == []C32_Inv /\ [][C32_Step]_vars

C32_Witness ==
    \E p, q \in Callers :
        /\ Tool(p) = "hello_mcp" /\ Tool(q) = "hello_mcp"
        /\ args[p] # args[q]
        /\ notesArray[p] = notesArray[q]
        /\ pendingSig # {}

\* the order of the steps as the specification gives it
C33_Order ==
    <<"node --version", "npm --version">> \o Directories \o
    <<"package.json", "tsconfig.json", "src/index.ts", "README.md",
      "jest.config.js", "tests/setup.test.ts", "npm install", "npm run build">>

\* C33: the steps the setup script has run are an initial part of the given
\* order; a failed prerequisite ends the script with exit code 1 before it has
\* created anything; after any failed step no later step has run, the completion
\* message is not printed and the exit code is 1; the message is printed only
\* after every step.
C33_SetupOrdered ==
    /\ Len(ran) <= Len(C33_Order)
    /\ \A k \in 1 .. Len(ran) : ran[k] = C33_Order[k]
    /\ failedAt \in Prerequisites => made = {}
    /\ failedAt # NoStep
          => /\ setupExit = 1
             /\ ~completed
             /\ ran[Len(ran)] = failedAt
    /\ setupExit = 1 => failedAt # NoStep
    /\ completed => (ran = C33_Order /\ failedAt = NoStep)

C33_Witness ==
    /\ failedAt = "npm install"
    /\ setupExit = 1
    /\ Files \subseteq made
    /\ "src" \notin made /\ "tests" \in made

====
